---- MODULE Spec2Model ----
\* Model of the futures keeper (src/src/keeper.js): the position index built
\* from decoded events, the FIFO block queue with its consumer loop, the
\* keeper pass (runKeepers), the per-id task guard (runKeeperTask) and the
\* liquidation submitter (liquidateOrder).
\*
\* Every action is the code that runs between two awaits of the JavaScript
\* event loop, so the steps of one action never interleave with another.
EXTENDS Integers, Sequences, FiniteSets, TLC

\* ------------------------------------------------------------------ bounds
MaxBlock == 2           \* block numbers 1..MaxBlock
MaxNotifications == 3   \* block notifications delivered by the provider
MaxEvents == 2          \* events returned by one queryFilter call
MaxApplied == 3         \* events applied in one history of updateIndex calls
MaxPasses == 3          \* overlapping-pass harness: passes started
MaxUpdates == 2         \* overlapping-pass harness: updateIndex calls
MaxHarnessEvents == 1   \* overlapping-pass harness: events of one updateIndex call
NumThreads == 2         \* control threads able to run a pass

Accounts == {"a1", "a2"}
IdsOf(a) == IF a = "a1" THEN {1, 3} ELSE {2}   \* position ids are unique per account
Sizes == {-3, 0, 5}
Signers == {"s1"}
Threads == 1..NumThreads
Main == 1
Blocks == 1..MaxBlock
ErrCodes == {"NONCE_EXPIRED", "CALL_EXCEPTION", "NONE"}

VARIABLES
    positions,          \* this.positions, in key insertion order
    activeKeeperTasks,  \* this.activeKeeperTasks: the ids mapped to true
    blockQueue,         \* this.blockQueue
    blockTip,           \* this.blockTip, 0 for null
    listening,          \* provider.on("block", ...) registered
    pc,                 \* position of run() / processNewBlock()
    blockNumber,        \* argument of the processNewBlock call in flight
    thr,                \* per control thread: the runKeepers pass and its task
    signerHeldBy,       \* <<signer, thread>> pairs: signers handed out by the pool
    exitCount,          \* process.exit calls
    futuresOpenPositions, \* metrics gauge
    keeperErrors,       \* metrics.keeperErrors
    liqSuccess,         \* metrics.futuresLiquidations, success: true
    liqFailed,          \* metrics.futuresLiquidations, success: false
    \* history variables (not read by the program)
    notified,           \* every block notification delivered, in order
    dequeued,           \* every block number shifted off the queue, in order
    appliedBlocks,      \* block numbers whose events updateIndex applied
    backfillLatest,     \* last block covered by the startup backfill, 0 before it
    blockStage,         \* progress of the block dequeued last
    fatalCount,         \* submissions that failed with NONCE_EXPIRED
    lastSkip,           \* the last call of runKeeperTask that took the skip branch
    lastOutcome,        \* id and outcome of the submission that ended last
    passCount,          \* passes started by the harness
    updateCount,        \* updateIndex calls of the harness
    appliedEvents,      \* all events applied since the index was empty
    lastEvents,         \* argument of the last updateIndex call
    prevPositions,      \* the index before the last updateIndex call
    \* the paginated fetcher
    chain,              \* per block number, per market: the address list of its state contract
    fetch               \* the getOpenPositions / getPendingOrders call in flight

vars == <<positions, activeKeeperTasks, blockQueue, blockTip, listening, pc,
          blockNumber, thr, signerHeldBy, exitCount,
          futuresOpenPositions, keeperErrors, liqSuccess, liqFailed,
          notified, dequeued, appliedBlocks, backfillLatest, blockStage,
          fatalCount, lastSkip, lastOutcome, passCount, updateCount,
          appliedEvents, lastEvents, prevPositions, chain, fetch>>

driverVars == <<blockQueue, blockTip, listening, pc, blockNumber>>
driverHist == <<notified, dequeued, appliedBlocks, backfillLatest, blockStage>>
taskVars == <<thr, activeKeeperTasks, signerHeldBy>>
metricVars == <<futuresOpenPositions, keeperErrors, liqSuccess, liqFailed>>
taskHist == <<fatalCount, lastSkip, lastOutcome>>
harnessHist == <<passCount, updateCount>>
indexHist == <<appliedEvents, lastEvents, prevPositions>>
fetchVars == <<chain, fetch>>

\* no fetcher call in flight
NoFetch == [pc |-> "none"]

\* ------------------------------------------------------------ decoded events
Modified(a, i, s) == [event |-> "PositionModified", id |-> i, account |-> a, size |-> s]
Liquidated(a) == [event |-> "PositionLiquidated", id |-> 0, account |-> a, size |-> 0]
Other(name) == [event |-> name, id |-> 0, account |-> "-", size |-> 0]

\* "" is an undecoded log (event undefined); MarginTransferred has no handler.
OtherNames == {"FundingRecomputed", "OrderSubmitted", "", "MarginTransferred"}

EventSet ==
    {Modified(a, i, s) : <<a, i, s>> \in
        {x \in Accounts \X (1..4) \X Sizes : x[2] \in IdsOf(x[1])}}
    \cup {Liquidated(a) : a \in Accounts}
    \cup {Other(n) : n \in OtherNames}

EventSeqs(n) == UNION {[1..k -> EventSet] : k \in 0..n}

\* ---------------------------------------------------------------- the index
HasEntry(pos, a) == \E k \in 1..Len(pos) : pos[k].account = a

EntryOf(pos, a) == pos[CHOOSE k \in 1..Len(pos) : pos[k].account = a]

\* delete this.positions[account]
DeleteEntry(pos, a) == SelectSeq(pos, LAMBDA p : p.account # a)

\* mutant: an existing entry is not overwritten
PutEntryKeepOld(pos, p) ==
    IF HasEntry(pos, p.account) THEN pos ELSE Append(pos, p)

\* this.positions[account] = {...}: an existing key keeps its place
PutEntry(pos, p) ==
    IF HasEntry(pos, p.account)
    THEN [k \in 1..Len(pos) |-> IF pos[k].account = p.account THEN p ELSE pos[k]]
    ELSE Append(pos, p)

\* mutant: no size check, a closed position is stored with size zero
ApplyEventNoClose(pos, e) ==
    IF e.event = "PositionModified"
    THEN PutEntry(pos, [id |-> e.id, event |-> e.event,
                        account |-> e.account, size |-> e.size])
    ELSE IF e.event = "PositionLiquidated"
    THEN DeleteEntry(pos, e.account)
    ELSE pos

\* mutant: PositionLiquidated has no handler
ApplyEventKeepLiquidated(pos, e) ==
    IF e.event = "PositionModified"
    THEN IF e.size = 0
         THEN DeleteEntry(pos, e.account)
         ELSE PutEntry(pos, [id |-> e.id, event |-> e.event,
                             account |-> e.account, size |-> e.size])
    ELSE pos

\* the forEach callback of updateIndex
ApplyEvent(pos, e) ==
    IF e.event = "PositionModified"
    THEN IF e.size = 0
         THEN DeleteEntry(pos, e.account)
         ELSE PutEntry(pos, [id |-> e.id, event |-> e.event,
                             account |-> e.account, size |-> e.size])
    ELSE IF e.event = "PositionLiquidated"
    THEN DeleteEntry(pos, e.account)
    ELSE pos

RECURSIVE UpdateIndex(_, _)
UpdateIndex(pos, evs) ==
    IF evs = <<>> THEN pos
    ELSE UpdateIndex(ApplyEvent(pos, Head(evs)), Tail(evs))

\* ------------------------------------------------------- runKeeperTask guard
NoTask == [id |-> 0, account |-> "-"]
NoSkip == [thread |-> 0, id |-> 0]
NoOutcome == [id |-> 0, ok |-> FALSE]

\* A control thread: pc, the entries of Object.values(this.positions) not yet
\* offered (todo) and the task of the runKeeperTask call in flight (cur, err).
\* snap and calls are history: the index when the pass started and the ids
\* runKeeperTask was called with since. trail is history too: what the
\* liquidateOrder invocation in flight has got back from its collaborators and
\* reported to the metrics, in order; thrown is the code of the error it rejected
\* with ("-" for none).
IdleThread == [pc |-> "idle", todo |-> <<>>, cur |-> NoTask, err |-> FALSE,
               snap |-> <<>>, calls |-> <<>>, trail |-> <<>>, thrown |-> "-"]

\* pcs of a thread whose runKeeperTask call has passed the guard and not returned
TaskPcs == {"canLiquidate", "acquire", "submit", "wait", "settled", "exit"}
InFlight(t) == thr[t].pc \in TaskPcs
Owns(t, id) == InFlight(t) /\ thr[t].cur.id = id

Alive == exitCount = 0

\* mutant: the guard never finds the id
AlreadyRunningNever(id) == FALSE

\* if (this.activeKeeperTasks[id])
AlreadyRunning(id) == id \in activeKeeperTasks

\* mutant: a skipped entry is put back at the end of the pass
OfferRequeue(t, rec) ==
    LET p == Head(rec.todo)
        called == [rec EXCEPT !.todo = Tail(rec.todo), !.calls = Append(rec.calls, p.id)]
    IN
    IF AlreadyRunning(p.id)
    THEN /\ thr' = [thr EXCEPT ![t] = [called EXCEPT !.pc = "pass",
                                                     !.todo = Append(Tail(rec.todo), p)]]
         /\ lastSkip' = [thread |-> t, id |-> p.id]
         /\ UNCHANGED activeKeeperTasks
    ELSE /\ thr' = [thr EXCEPT ![t] =
                       [called EXCEPT !.pc = "canLiquidate",
                                      !.cur = [id |-> p.id, account |-> p.account]]]
         /\ activeKeeperTasks' = activeKeeperTasks \cup {p.id}
         /\ UNCHANGED lastSkip

\* One iteration of the for loop of runKeepers by thread t in state rec: the
\* runKeeperTask call for the head of todo, up to its first await (the
\* canLiquidate call of the action).
Offer(t, rec) ==
    LET p == Head(rec.todo)
        called == [rec EXCEPT !.todo = Tail(rec.todo), !.calls = Append(rec.calls, p.id)]
    IN
    IF AlreadyRunning(p.id)
    THEN /\ thr' = [thr EXCEPT ![t] = [called EXCEPT !.pc = "pass"]]
         /\ lastSkip' = [thread |-> t, id |-> p.id]
         /\ UNCHANGED activeKeeperTasks
    ELSE /\ thr' = [thr EXCEPT ![t] =
                       [called EXCEPT !.pc = "canLiquidate",
                                      !.cur = [id |-> p.id, account |-> p.account]]]
         /\ activeKeeperTasks' = activeKeeperTasks \cup {p.id}
         /\ UNCHANGED lastSkip


\* a pass whose loop starts at the second entry of Object.values(this.positions)
StartPassSkipsFirst(t, pos) ==
    LET rec == [pc |-> "pass", todo |-> IF pos = <<>> THEN pos ELSE Tail(pos),
                cur |-> NoTask, err |-> FALSE,
                snap |-> pos, calls |-> <<>>, trail |-> <<>>, thrown |-> "-"]
    IN
    /\ futuresOpenPositions' = Len(pos)
    /\ IF rec.todo = <<>>
       THEN /\ thr' = [thr EXCEPT ![t] = rec]
            /\ UNCHANGED <<activeKeeperTasks, lastSkip>>
       ELSE Offer(t, rec)


\* runKeepers without the gauge update of its first statement
StartPassStaleGauge(t, pos) ==
    LET rec == [pc |-> "pass", todo |-> pos, cur |-> NoTask, err |-> FALSE,
                snap |-> pos, calls |-> <<>>, trail |-> <<>>, thrown |-> "-"]
    IN
    /\ futuresOpenPositions' = futuresOpenPositions
    /\ IF pos = <<>>
       THEN /\ thr' = [thr EXCEPT ![t] = rec]
            /\ UNCHANGED <<activeKeeperTasks, lastSkip>>
       ELSE Offer(t, rec)

\* runKeepers up to its first await: the gauge, Object.values(this.positions)
\* and the first iteration of the loop.
StartPass(t, pos) ==
    LET rec == [pc |-> "pass", todo |-> pos, cur |-> NoTask, err |-> FALSE,
                snap |-> pos, calls |-> <<>>, trail |-> <<>>, thrown |-> "-"]
    IN
    /\ futuresOpenPositions' = Len(pos)
    /\ IF pos = <<>>
       THEN /\ thr' = [thr EXCEPT ![t] = rec]
            /\ UNCHANGED <<activeKeeperTasks, lastSkip>>
       ELSE Offer(t, rec)


\* the loop of runKeepers without its await: the next runKeeperTask call is made
\* while the action of the previous one is still in flight
PassStepNoAwait(t) ==
    /\ Alive
    /\ thr[t].pc \in {"pass", "canLiquidate", "acquire", "submit", "wait", "settled"}
    /\ thr[t].todo # <<>>
    /\ Offer(t, thr[t])
    /\ UNCHANGED <<positions, signerHeldBy, exitCount, metricVars, fatalCount, lastOutcome,
                   driverVars, driverHist, harnessHist, indexHist, fetchVars>>

\* the loop of runKeepers resumes after a runKeeperTask call returned
PassStep(t) ==
    /\ Alive
    /\ thr[t].pc = "pass"
    /\ thr[t].todo # <<>>
    /\ Offer(t, thr[t])
    /\ UNCHANGED <<positions, signerHeldBy, exitCount, metricVars, fatalCount, lastOutcome,
                   driverVars, driverHist, harnessHist, indexHist, fetchVars>>

\* ------------------------------------------------------------ liquidateOrder
Settled(t, failed) == [thr EXCEPT ![t].pc = "settled", ![t].err = failed]

\* thread t after its liquidateOrder invocation got back or reported the items
Logged(th, t, items) == [th EXCEPT ![t].trail = thr[t].trail \o items]

Release(t) == {h \in signerHeldBy : h[2] # t}

SignerFree(s) == \A h \in signerHeldBy : h[1] # s

\* mutant: NONCE_EXPIRED is rethrown like any other error
IsFatalNever(code) == FALSE

\* if (err.code) { if (err.code === "NONCE_EXPIRED") ... process.exit(-1) }
IsFatal(code) == code = "NONCE_EXPIRED"


\* liquidateOrder without its early return: it goes on to the signer whatever
\* canLiquidate answered
CanLiquidateReturnsIgnored(t, can) ==
    /\ Alive
    /\ thr[t].pc = "canLiquidate"
    /\ thr' = Logged([thr EXCEPT ![t].pc = "acquire"], t,
                     <<(<<"canLiquidate", (IF can THEN "true" ELSE "false")>>)>>)
    /\ UNCHANGED <<positions, activeKeeperTasks, signerHeldBy, exitCount, metricVars,
                   taskHist, driverVars, driverHist, harnessHist, indexHist, fetchVars>>

CanLiquidateReturns(t, can) ==
    /\ Alive
    /\ thr[t].pc = "canLiquidate"
    /\ thr' = IF can
              THEN Logged([thr EXCEPT ![t].pc = "acquire"], t,
                          <<(<<"canLiquidate", "true">>)>>)
              ELSE Logged(Settled(t, FALSE), t, <<(<<"canLiquidate", "false">>)>>)
    /\ UNCHANGED <<positions, activeKeeperTasks, signerHeldBy, exitCount, metricVars,
                   taskHist, driverVars, driverHist, harnessHist, indexHist, fetchVars>>

CanLiquidateFails(t) ==
    /\ Alive
    /\ thr[t].pc = "canLiquidate"
    /\ thr' = [Logged(Settled(t, TRUE), t, <<(<<"canLiquidate", "throw">>)>>)
                 EXCEPT ![t].thrown = "SERVER_ERROR"]
    /\ UNCHANGED <<positions, activeKeeperTasks, signerHeldBy, exitCount, metricVars,
                   taskHist, driverVars, driverHist, harnessHist,
                   indexHist, fetchVars>>

AcquireSigner(t, s) ==
    /\ Alive
    /\ thr[t].pc = "acquire"
    /\ SignerFree(s)
    /\ signerHeldBy' = signerHeldBy \cup {<<s, t>>}
    /\ thr' = Logged([thr EXCEPT ![t].pc = "submit"], t, <<(<<"withSigner", s>>)>>)
    /\ UNCHANGED <<positions, activeKeeperTasks, exitCount, metricVars, taskHist,
                   driverVars, driverHist, harnessHist, indexHist, fetchVars>>


\* the confirmation awaited outside the withSigner callback: the callback returns
\* with the submit, and the signer goes back before tx.wait
SubmitReturnsReleases(t) ==
    /\ Alive
    /\ thr[t].pc = "submit"
    /\ signerHeldBy' = Release(t)
    /\ thr' = Logged([thr EXCEPT ![t].pc = "wait"], t, <<(<<"liquidatePosition", "tx">>)>>)
    /\ UNCHANGED <<positions, activeKeeperTasks, exitCount, metricVars,
                   taskHist, driverVars, driverHist, harnessHist, indexHist, fetchVars>>

SubmitReturns(t) ==
    /\ Alive
    /\ thr[t].pc = "submit"
    /\ thr' = Logged([thr EXCEPT ![t].pc = "wait"], t, <<(<<"liquidatePosition", "tx">>)>>)
    /\ UNCHANGED <<positions, activeKeeperTasks, signerHeldBy, exitCount, metricVars,
                   taskHist, driverVars, driverHist, harnessHist, indexHist, fetchVars>>


\* the catch block without its throw: after the failed outcome the code falls
\* through to the success outcome and returns
SubmissionErrorFallsThrough(t, code) ==
    /\ signerHeldBy' = Release(t)
    /\ liqFailed' = liqFailed + 1
    /\ liqSuccess' = liqSuccess + 1
    /\ LET raised == <<(IF thr[t].pc = "submit" THEN "liquidatePosition" ELSE "wait"),
                        code>>
           items == <<raised, <<"observe", "failed">>, <<"observe", "success">> >>
       IN
       IF IsFatal(code)
       THEN /\ exitCount' = exitCount + 1
            /\ thr' = Logged([thr EXCEPT ![t].pc = "exit"], t, items)
       ELSE /\ thr' = Logged(Settled(t, FALSE), t, items)
            /\ UNCHANGED exitCount
    /\ fatalCount' = IF code = "NONCE_EXPIRED" THEN fatalCount + 1 ELSE fatalCount
    /\ lastOutcome' = [id |-> thr[t].cur.id, ok |-> FALSE]
    /\ UNCHANGED <<positions, activeKeeperTasks, futuresOpenPositions, keeperErrors,
                   lastSkip, driverVars, driverHist, harnessHist, indexHist, fetchVars>>


\* the catch block wrapped in a retry: after a failed outcome that is not fatal
\* the invocation goes back to withSigner
SubmissionErrorRetries(t, code) ==
    /\ signerHeldBy' = Release(t)
    /\ liqFailed' = liqFailed + 1
    /\ LET raised == <<(IF thr[t].pc = "submit" THEN "liquidatePosition" ELSE "wait"),
                        code>>
           items == <<raised, <<"observe", "failed">> >>
       IN
       IF IsFatal(code)
       THEN /\ exitCount' = exitCount + 1
            /\ thr' = Logged([thr EXCEPT ![t].pc = "exit"], t, items)
       ELSE /\ thr' = Logged([thr EXCEPT ![t].pc = "acquire"], t, items)
            /\ UNCHANGED exitCount
    /\ fatalCount' = IF code = "NONCE_EXPIRED" THEN fatalCount + 1 ELSE fatalCount
    /\ lastOutcome' = [id |-> thr[t].cur.id, ok |-> FALSE]
    /\ UNCHANGED <<positions, activeKeeperTasks, futuresOpenPositions, keeperErrors,
                   liqSuccess, lastSkip, driverVars, driverHist, harnessHist,
                   indexHist, fetchVars>>

\* the catch block of liquidateOrder, entered after withSigner released the signer
SubmissionError(t, code) ==
    /\ signerHeldBy' = Release(t)
    /\ liqFailed' = liqFailed + 1
    /\ LET raised == <<(IF thr[t].pc = "submit" THEN "liquidatePosition" ELSE "wait"),
                        code>>
           items == <<raised, <<"observe", "failed">> >>
       IN
       IF IsFatal(code)
       THEN /\ exitCount' = exitCount + 1
            /\ thr' = Logged([thr EXCEPT ![t].pc = "exit"], t, items)
       ELSE /\ thr' = [Logged(Settled(t, TRUE), t, items) EXCEPT ![t].thrown = code]
            /\ UNCHANGED exitCount
    /\ fatalCount' = IF code = "NONCE_EXPIRED" THEN fatalCount + 1 ELSE fatalCount
    /\ lastOutcome' = [id |-> thr[t].cur.id, ok |-> FALSE]
    /\ UNCHANGED <<positions, activeKeeperTasks, futuresOpenPositions, keeperErrors,
                   liqSuccess, lastSkip, driverVars, driverHist, harnessHist,
                   indexHist, fetchVars>>

SubmitFails(t, code) ==
    /\ Alive
    /\ thr[t].pc = "submit"
    /\ SubmissionError(t, code)

WaitFails(t, code) ==
    /\ Alive
    /\ thr[t].pc = "wait"
    /\ SubmissionError(t, code)


\* liquidateOrder deleting the position from the index once the transaction
\* is confirmed
WaitReturnsDropsEntry(t) ==
    /\ Alive
    /\ thr[t].pc = "wait"
    /\ signerHeldBy' = Release(t)
    /\ liqSuccess' = liqSuccess + 1
    /\ positions' = DeleteEntry(positions, thr[t].cur.account)
    /\ thr' = Logged(Settled(t, FALSE), t,
                     << <<"wait", "receipt">>, <<"observe", "success">> >>)
    /\ lastOutcome' = [id |-> thr[t].cur.id, ok |-> TRUE]
    /\ UNCHANGED <<activeKeeperTasks, exitCount, futuresOpenPositions,
                   keeperErrors, liqFailed, fatalCount, lastSkip, driverVars,
                   driverHist, harnessHist, indexHist, fetchVars>>

WaitReturns(t) ==
    /\ Alive
    /\ thr[t].pc = "wait"
    /\ signerHeldBy' = Release(t)
    /\ liqSuccess' = liqSuccess + 1
    /\ thr' = Logged(Settled(t, FALSE), t,
                     << <<"wait", "receipt">>, <<"observe", "success">> >>)
    /\ lastOutcome' = [id |-> thr[t].cur.id, ok |-> TRUE]
    /\ UNCHANGED <<positions, activeKeeperTasks, exitCount, futuresOpenPositions,
                   keeperErrors, liqFailed, fatalCount, lastSkip, driverVars,
                   driverHist, harnessHist, indexHist, fetchVars>>

\* mutant: the delete is skipped when the action failed
TaskFinishLeak(t) ==
    /\ Alive
    /\ thr[t].pc = "settled"
    /\ keeperErrors' = IF thr[t].err THEN keeperErrors + 1 ELSE keeperErrors
    /\ activeKeeperTasks' =
         IF thr[t].err THEN activeKeeperTasks ELSE activeKeeperTasks \ {thr[t].cur.id}
    /\ thr' = [thr EXCEPT ![t].pc = "pass", ![t].cur = NoTask, ![t].err = FALSE,
                          ![t].trail = <<>>, ![t].thrown = "-"]
    /\ UNCHANGED <<positions, signerHeldBy, exitCount, futuresOpenPositions,
                   liqSuccess, liqFailed, taskHist, driverVars, driverHist,
                   harnessHist, indexHist, fetchVars>>

\* mutant: the catch block does not count the error
TaskFinishNoCount(t) ==
    /\ Alive
    /\ thr[t].pc = "settled"
    /\ activeKeeperTasks' = activeKeeperTasks \ {thr[t].cur.id}
    /\ thr' = [thr EXCEPT ![t].pc = "pass", ![t].cur = NoTask, ![t].err = FALSE,
                          ![t].trail = <<>>, ![t].thrown = "-"]
    /\ UNCHANGED <<positions, signerHeldBy, exitCount, metricVars, taskHist,
                   driverVars, driverHist, harnessHist, indexHist, fetchVars>>


\* runKeeperTask without the delete of its last statement
TaskFinishKeepsId(t) ==
    /\ Alive
    /\ thr[t].pc = "settled"
    /\ keeperErrors' = IF thr[t].err THEN keeperErrors + 1 ELSE keeperErrors
    /\ activeKeeperTasks' = activeKeeperTasks
    /\ thr' = [thr EXCEPT ![t].pc = "pass", ![t].cur = NoTask, ![t].err = FALSE,
                          ![t].trail = <<>>, ![t].thrown = "-"]
    /\ UNCHANGED <<positions, signerHeldBy, exitCount, futuresOpenPositions,
                   liqSuccess, liqFailed, taskHist, driverVars, driverHist,
                   harnessHist, indexHist, fetchVars>>

\* runKeeperTask after await cb(): the catch block, then the delete
TaskFinish(t) ==
    /\ Alive
    /\ thr[t].pc = "settled"
    /\ keeperErrors' = IF thr[t].err THEN keeperErrors + 1 ELSE keeperErrors
    /\ activeKeeperTasks' = activeKeeperTasks \ {thr[t].cur.id}
    /\ thr' = [thr EXCEPT ![t].pc = "pass", ![t].cur = NoTask, ![t].err = FALSE,
                          ![t].trail = <<>>, ![t].thrown = "-"]
    /\ UNCHANGED <<positions, signerHeldBy, exitCount, futuresOpenPositions,
                   liqSuccess, liqFailed, taskHist, driverVars, driverHist,
                   harnessHist, indexHist, fetchVars>>

TaskStep(t) ==
    \/ PassStep(t)
    \/ \E can \in BOOLEAN : CanLiquidateReturns(t, can)
    \/ CanLiquidateFails(t)
    \/ \E s \in Signers : AcquireSigner(t, s)
    \/ SubmitReturns(t)
    \/ \E code \in ErrCodes : SubmitFails(t, code)
    \/ WaitReturns(t)
    \/ \E code \in ErrCodes : WaitFails(t, code)
    \/ TaskFinish(t)

\* ------------------------------------------------ run() and processNewBlock()
\* run(): the backfill query fromBlock..latest returned; updateIndex(events),
\* then runKeepers() up to its first await.
BackfillReturns(evs, latest) ==
    /\ pc = "backfill"
    /\ positions' = UpdateIndex(positions, evs)
    /\ StartPass(Main, positions')
    /\ pc' = "keepers0"
    /\ backfillLatest' = latest
    /\ UNCHANGED <<blockQueue, blockTip, listening, blockNumber, signerHeldBy,
                   exitCount, keeperErrors, liqSuccess, liqFailed, notified, dequeued,
                   appliedBlocks, blockStage, fatalCount, lastOutcome, harnessHist,
                   indexHist, fetchVars>>

\* a rejected query rejects run(): the consumer loop is gone, the listener stays
QueryFails ==
    /\ Alive
    /\ pc \in {"backfill", "queryMarket", "queryRates"}
    /\ pc' = "crashed"
    /\ UNCHANGED <<positions, blockQueue, blockTip, listening, blockNumber,
                   taskVars, exitCount, metricVars, driverHist, taskHist, harnessHist,
                   indexHist, fetchVars>>

\* the first runKeepers() of run() returned: register the listener, enter the loop
PassEndBackfill ==
    /\ Alive
    /\ pc = "keepers0"
    /\ thr[Main].pc = "pass"
    /\ thr[Main].todo = <<>>
    /\ thr' = [thr EXCEPT ![Main] = IdleThread]
    /\ listening' = TRUE
    /\ pc' = "loop"
    /\ UNCHANGED <<positions, blockQueue, blockTip, blockNumber,
                   activeKeeperTasks, signerHeldBy, exitCount, metricVars, driverHist,
                   taskHist, harnessHist, indexHist, fetchVars>>


\* a listener without the blockTip check: the first notification is queued too
NotifyQueuesFirst(n) ==
    /\ Alive
    /\ listening
    /\ Len(notified) < MaxNotifications
    /\ notified' = Append(notified, n)
    /\ blockQueue' = Append(blockQueue, n)
    /\ blockTip' = IF blockTip = 0 THEN n ELSE blockTip
    /\ UNCHANGED <<positions, listening, pc, blockNumber, taskVars, exitCount,
                   metricVars, dequeued, appliedBlocks, backfillLatest, blockStage,
                   taskHist, harnessHist, indexHist, fetchVars>>

\* the "block" listener
Notify(n) ==
    /\ Alive
    /\ listening
    /\ Len(notified) < MaxNotifications
    /\ notified' = Append(notified, n)
    /\ IF blockTip = 0
       THEN blockTip' = n /\ UNCHANGED blockQueue
       ELSE blockQueue' = Append(blockQueue, n) /\ UNCHANGED blockTip
    /\ UNCHANGED <<positions, listening, pc, blockNumber, taskVars, exitCount,
                   metricVars, dequeued, appliedBlocks, backfillLatest, blockStage,
                   taskHist, harnessHist, indexHist, fetchVars>>

\* mutant: processNewBlock is not awaited
LoopReadyAlways == pc \in {"loop", "queryMarket", "queryRates", "updated", "keepers"}

\* may the while loop of run() take the next block
LoopReady == pc = "loop"

\* blockQueue.shift(), then processNewBlock up to its first await
Dequeue ==
    /\ Alive
    /\ LoopReady
    /\ blockQueue # <<>>
    /\ blockNumber' = Head(blockQueue)
    /\ blockQueue' = Tail(blockQueue)
    /\ blockTip' = Head(blockQueue)
    /\ dequeued' = Append(dequeued, Head(blockQueue))
    /\ blockStage' = "query"
    /\ pc' = "queryMarket"
    /\ UNCHANGED <<positions, listening, taskVars, exitCount, metricVars,
                   notified, appliedBlocks, backfillLatest, taskHist, harnessHist,
                   indexHist, fetchVars>>

\* processNewBlock: the futuresMarket query returned. Its result is first read by
\* updateIndex, after the next await, and it is drawn there.
MarketQueryReturns ==
    /\ Alive
    /\ pc = "queryMarket"
    /\ pc' = "queryRates"
    /\ UNCHANGED <<positions, blockQueue, blockTip, listening, blockNumber, taskVars,
                   exitCount, metricVars, driverHist, taskHist, harnessHist, indexHist, fetchVars>>

\* the exchange rate events are only logged; then updateIndex(events)
RatesQueryReturns(evs) ==
    /\ Alive
    /\ pc = "queryRates"
    /\ positions' = UpdateIndex(positions, evs)
    /\ appliedBlocks' = Append(appliedBlocks, blockNumber)
    /\ blockStage' = "updated"
    /\ pc' = "updated"
    /\ UNCHANGED <<blockQueue, blockTip, listening, blockNumber, taskVars, exitCount,
                   metricVars, notified, dequeued, backfillLatest, taskHist,
                   harnessHist, indexHist, fetchVars>>

\* processNewBlock: await this.runKeepers()
BlockRunKeepers ==
    /\ Alive
    /\ pc = "updated"
    /\ StartPass(Main, positions)
    /\ blockStage' = "pass"
    /\ pc' = "keepers"
    /\ UNCHANGED <<positions, blockQueue, blockTip, listening, blockNumber,
                   signerHeldBy, exitCount, keeperErrors, liqSuccess, liqFailed,
                   notified, dequeued, appliedBlocks, backfillLatest, fatalCount, lastOutcome,
                   harnessHist, indexHist, fetchVars>>

\* runKeepers() and processNewBlock() returned: back at the top of the loop
PassEndBlock ==
    /\ Alive
    /\ pc = "keepers"
    /\ thr[Main].pc = "pass"
    /\ thr[Main].todo = <<>>
    /\ thr' = [thr EXCEPT ![Main] = IdleThread]
    /\ blockStage' = "passed"
    /\ pc' = "loop"
    /\ UNCHANGED <<positions, blockQueue, blockTip, listening, blockNumber,
                   activeKeeperTasks, signerHeldBy, exitCount, metricVars, notified,
                   dequeued, appliedBlocks, backfillLatest, taskHist, harnessHist,
                   indexHist, fetchVars>>

Init ==
    /\ positions = <<>>
    /\ activeKeeperTasks = {}
    /\ blockQueue = <<>>
    /\ blockTip = 0
    /\ listening = FALSE
    /\ pc = "backfill"
    /\ blockNumber = 0
    /\ thr = [t \in Threads |-> IdleThread]
    /\ signerHeldBy = {}
    /\ exitCount = 0
    /\ futuresOpenPositions = 0
    /\ keeperErrors = 0
    /\ liqSuccess = 0
    /\ liqFailed = 0
    /\ notified = <<>>
    /\ dequeued = <<>>
    /\ appliedBlocks = <<>>
    /\ backfillLatest = 0
    /\ blockStage = "none"
    /\ fatalCount = 0
    /\ lastSkip = NoSkip
    /\ lastOutcome = NoOutcome
    /\ passCount = 0
    /\ updateCount = 0
    /\ appliedEvents = <<>>
    /\ lastEvents = <<>>
    /\ prevPositions = <<>>
    /\ chain = <<>>
    /\ fetch = NoFetch

Next ==
    \/ \E evs \in EventSeqs(MaxEvents), latest \in Blocks : BackfillReturns(evs, latest)
    \/ QueryFails
    \/ PassEndBackfill
    \/ \E n \in Blocks : Notify(n)
    \/ Dequeue
    \/ MarketQueryReturns
    \/ \E evs \in EventSeqs(MaxEvents) : RatesQueryReturns(evs)
    \/ BlockRunKeepers
    \/ PassEndBlock
    \/ TaskStep(Main)

Spec == Init /\ [][Next]_vars

\* ------------------------------------------- overlapping passes (harness)
\* runKeeperTask is written for overlapping calls (the batched Promise.all
\* variant of runKeepers). The harness runs the code of updateIndex, runKeepers,
\* runKeeperTask and liquidateOrder on NumThreads control threads whose passes
\* overlap, so that calls for the same id and for different ids interleave.
HarnessUpdateIndex(evs) ==
    /\ Alive
    /\ pc = "harness"
    /\ updateCount < MaxUpdates
    /\ updateCount' = updateCount + 1
    /\ positions' = UpdateIndex(positions, evs)
    /\ UNCHANGED <<driverVars, taskVars, exitCount, metricVars, driverHist, taskHist,
                   passCount, indexHist, fetchVars>>

HarnessRunKeepers(t) ==
    /\ Alive
    /\ pc = "harness"
    /\ thr[t].pc = "idle"
    /\ passCount < MaxPasses
    /\ passCount' = passCount + 1
    /\ StartPass(t, positions)
    /\ UNCHANGED <<positions, driverVars, signerHeldBy, exitCount, keeperErrors,
                   liqSuccess, liqFailed, driverHist, fatalCount, lastOutcome, updateCount,
                   indexHist, fetchVars>>

HarnessPassEnd(t) ==
    /\ Alive
    /\ pc = "harness"
    /\ thr[t].pc = "pass"
    /\ thr[t].todo = <<>>
    /\ thr' = [thr EXCEPT ![t] = IdleThread]
    /\ UNCHANGED <<positions, driverVars, activeKeeperTasks, signerHeldBy, exitCount,
                   metricVars, driverHist, taskHist, harnessHist, indexHist, fetchVars>>

InitTasks ==
    /\ positions = <<>>
    /\ activeKeeperTasks = {}
    /\ blockQueue = <<>>
    /\ blockTip = 0
    /\ listening = FALSE
    /\ pc = "harness"
    /\ blockNumber = 0
    /\ thr = [t \in Threads |-> IdleThread]
    /\ signerHeldBy = {}
    /\ exitCount = 0
    /\ futuresOpenPositions = 0
    /\ keeperErrors = 0
    /\ liqSuccess = 0
    /\ liqFailed = 0
    /\ notified = <<>>
    /\ dequeued = <<>>
    /\ appliedBlocks = <<>>
    /\ backfillLatest = 0
    /\ blockStage = "none"
    /\ fatalCount = 0
    /\ lastSkip = NoSkip
    /\ lastOutcome = NoOutcome
    /\ passCount = 0
    /\ updateCount = 0
    /\ appliedEvents = <<>>
    /\ lastEvents = <<>>
    /\ prevPositions = <<>>
    /\ chain = <<>>
    /\ fetch = NoFetch

NextTasks ==
    \/ \E evs \in EventSeqs(MaxHarnessEvents) : HarnessUpdateIndex(evs)
    \/ \E t \in Threads : HarnessRunKeepers(t)
    \/ \E t \in Threads : HarnessPassEnd(t)
    \/ \E t \in Threads : TaskStep(t)

SpecTasks == InitTasks /\ [][NextTasks]_vars

\* ------------------------------------------------- updateIndex on its own
\* updateIndex called with any bounded event list, from the empty index on
UpdateIndexCall(evs) ==
    /\ pc = "index"
    /\ Len(appliedEvents) + Len(evs) <= MaxApplied
    /\ positions' = UpdateIndex(positions, evs)
    /\ appliedEvents' = appliedEvents \o evs
    /\ lastEvents' = evs
    /\ prevPositions' = positions
    /\ UNCHANGED <<driverVars, taskVars, exitCount, metricVars, driverHist, taskHist,
                   harnessHist, fetchVars>>

InitIndex ==
    /\ positions = <<>>
    /\ activeKeeperTasks = {}
    /\ blockQueue = <<>>
    /\ blockTip = 0
    /\ listening = FALSE
    /\ pc = "index"
    /\ blockNumber = 0
    /\ thr = [t \in Threads |-> IdleThread]
    /\ signerHeldBy = {}
    /\ exitCount = 0
    /\ futuresOpenPositions = 0
    /\ keeperErrors = 0
    /\ liqSuccess = 0
    /\ liqFailed = 0
    /\ notified = <<>>
    /\ dequeued = <<>>
    /\ appliedBlocks = <<>>
    /\ backfillLatest = 0
    /\ blockStage = "none"
    /\ fatalCount = 0
    /\ lastSkip = NoSkip
    /\ lastOutcome = NoOutcome
    /\ passCount = 0
    /\ updateCount = 0
    /\ appliedEvents = <<>>
    /\ lastEvents = <<>>
    /\ prevPositions = <<>>
    /\ chain = <<>>
    /\ fetch = NoFetch

NextIndex == \E evs \in EventSeqs(MaxEvents) : UpdateIndexCall(evs)

SpecIndex == InitIndex /\ [][NextIndex]_vars

\* ================================================================== claims
\* entries of account a, and whether two indexes agree on account a
EntriesOf(pos, a) == {k \in 1..Len(pos) : pos[k].account = a}
SameEntry(p, q, a) ==
    /\ HasEntry(p, a) = HasEntry(q, a)
    /\ HasEntry(p, a) => EntryOf(p, a) = EntryOf(q, a)

\* C8: applying PositionModified(account, size) removes the entry of the account
\* when size is zero, otherwise inserts or overwrites it with the event's id and
\* size; the entries of all other accounts are unchanged.
C8_PositionModified ==
    (Len(lastEvents) = 1 /\ lastEvents[1].event = "PositionModified") =>
        LET e == lastEvents[1] IN
        /\ e.size = 0 => ~HasEntry(positions, e.account)
        /\ e.size # 0 =>
              /\ Cardinality(EntriesOf(positions, e.account)) = 1
              /\ EntryOf(positions, e.account) =
                     [id |-> e.id, event |-> "PositionModified",
                      account |-> e.account, size |-> e.size]
        /\ \A b \in Accounts \ {e.account} : SameEntry(positions, prevPositions, b)

\* C8 witness: an entry was overwritten with a new size while another account
\* had an entry.
C8_Witness ==
    /\ Len(lastEvents) = 1
    /\ lastEvents[1].event = "PositionModified"
    /\ lastEvents[1].size # 0
    /\ HasEntry(prevPositions, lastEvents[1].account)
    /\ EntryOf(prevPositions, lastEvents[1].account).size # lastEvents[1].size
    /\ EntryOf(prevPositions, lastEvents[1].account).id # lastEvents[1].id
    /\ \E b \in Accounts \ {lastEvents[1].account} : HasEntry(positions, b)

\* C9: applying PositionLiquidated(account) leaves no entry for the account; when
\* none existed the index is unchanged; other accounts are never touched.
C9_PositionLiquidated ==
    (Len(lastEvents) = 1 /\ lastEvents[1].event = "PositionLiquidated") =>
        LET a == lastEvents[1].account IN
        /\ ~HasEntry(positions, a)
        /\ ~HasEntry(prevPositions, a) => positions = prevPositions
        /\ \A b \in Accounts \ {a} : SameEntry(positions, prevPositions, b)

\* C9 witness: PositionLiquidated applied for an account without an entry, to a
\* non-empty index.
C9_Witness ==
    /\ Len(lastEvents) = 1
    /\ lastEvents[1].event = "PositionLiquidated"
    /\ ~HasEntry(prevPositions, lastEvents[1].account)
    /\ prevPositions # <<>>

\* the PositionModified and PositionLiquidated events of account a, in order
Relevant(evs, a) ==
    SelectSeq(evs, LAMBDA e :
        e.account = a /\ e.event \in {"PositionModified", "PositionLiquidated"})

\* C10: after any event sequence applied to the empty index, account a has an entry
\* iff its last PositionModified / PositionLiquidated event is a PositionModified
\* with nonzero size, and the entry carries that event's size; a call with events
\* of other kinds only changes nothing.
C10_LastEventDecides ==
    /\ \A a \in Accounts :
         LET r == Relevant(appliedEvents, a) IN
         /\ HasEntry(positions, a) <=>
               (r # <<>> /\ r[Len(r)].event = "PositionModified" /\ r[Len(r)].size # 0)
         /\ HasEntry(positions, a) =>
               /\ EntryOf(positions, a).size = r[Len(r)].size
               /\ EntryOf(positions, a).id = r[Len(r)].id
    /\ (\A k \in 1..Len(lastEvents) :
            lastEvents[k].event \notin {"PositionModified", "PositionLiquidated"})
         => positions = prevPositions

\* C10 witness: a position opened, a FundingRecomputed event, the position resized
\* and another account's position closed again.
C10_Witness ==
    /\ Len(appliedEvents) >= 3
    /\ \E i, j, k \in 1..Len(appliedEvents) :
         /\ i < j /\ j < k
         /\ appliedEvents[i].event = "PositionModified" /\ appliedEvents[i].size # 0
         /\ appliedEvents[j].event = "FundingRecomputed"
         /\ appliedEvents[k].event = "PositionModified"
         /\ appliedEvents[k].account = appliedEvents[i].account
         /\ appliedEvents[k].size \notin {0, appliedEvents[i].size}
    /\ lastEvents # <<>>

\* the ids of a list of index entries, in order
IdsIn(entries) == [k \in 1..Len(entries) |-> entries[k].id]
AllIds == UNION {IdsOf(a) : a \in Accounts}

\* C1: under any interleaving of overlapping runKeeperTask calls, at most one
\* invocation of the action is in flight per id, and an id is in
\* activeKeeperTasks exactly while one invocation of its action is in flight.
C1_OneInFlightPerId ==
    /\ activeKeeperTasks \subseteq AllIds
    /\ \A id \in AllIds :
         /\ Cardinality({t \in Threads : Owns(t, id)}) <= 1
         /\ id \in activeKeeperTasks <=> \E t \in Threads : Owns(t, id)

\* C1 witness: one thread has just skipped the id another thread's action is in
\* flight for, and runs the action of a different id itself.
C1_Witness ==
    \E t, u \in Threads :
        /\ t # u
        /\ lastSkip.thread = u
        /\ Owns(t, lastSkip.id)
        /\ InFlight(u)
        /\ thr[u].cur.id # lastSkip.id

\* thread t calls runKeeperTask in this step, for an id in the running-set
SkipCall(t) ==
    /\ thr[t].pc \in {"idle", "pass"}
    /\ Len(thr'[t].calls) > (IF thr[t].pc = "idle" THEN 0 ELSE Len(thr[t].calls))
    /\ thr'[t].calls[Len(thr'[t].calls)] \in activeKeeperTasks

\* C2 (the call): a runKeeperTask call for an id in the running-set returns at
\* once: the action is not invoked, the running-set and the owner's invocation are
\* unchanged, nothing is queued, and the pass goes on with the entries left.
C2_SkipStep ==
    \A t \in Threads :
        SkipCall(t) =>
            /\ thr'[t].pc = "pass"
            /\ thr'[t].cur = NoTask
            /\ activeKeeperTasks' = activeKeeperTasks
            /\ \A u \in Threads \ {t} : thr'[u] = thr[u]
            /\ blockQueue' = blockQueue
            /\ thr'[t].todo =
                 (IF thr[t].pc = "idle" THEN Tail(positions) ELSE Tail(thr[t].todo))

\* C2 (the next pass): the ids a pass calls runKeeperTask with are the ids of the
\* entries in the index when the pass started, so a skipped id is offered by the
\* next pass iff its position is in the index then.
C2_PassOffersIndex ==
    \A t \in Threads :
        thr[t].pc # "idle" =>
            thr[t].calls \o IdsIn(thr[t].todo) = IdsIn(thr[t].snap)

\* C2: a call for an id already in the running-set returns immediately without
\* invoking the action, changing the running-set or queueing anything, and the
\* next pass offers the id iff its position is still in the index at that pass.
C2_SkipReturnsAtOnce == [][C2_SkipStep]_vars /\ []C2_PassOffersIndex

\* C2 witness: the thread that skipped an id runs the action for that id in a
\* later pass.
C2_Witness ==
    /\ lastSkip # NoSkip
    /\ Owns(lastSkip.thread, lastSkip.id)

\* the runKeeperTask call of thread t returns in this step, after its action settled
Returns(t) == thr[t].pc = "settled" /\ thr'[t].pc # "settled"

C3_ReturnStep ==
    \A t \in Threads :
        Returns(t) => thr'[t].pc = "pass" /\ thr[t].cur.id \notin activeKeeperTasks'

C3_AfterReturn ==
    \A t \in Threads :
        (thr[t].pc = "pass" /\ thr[t].calls # <<>>) =>
            thr[t].calls[Len(thr[t].calls)] \notin activeKeeperTasks

\* C3: every runKeeperTask call that added its id to the running-set has removed it
\* when it returns, after a successful action and after a failed one alike, so the
\* id is not in the running-set once the call has returned.
C3_CleanupOnReturn == [][C3_ReturnStep]_vars /\ []C3_AfterReturn

\* C3 witness: in one pass a call returned after a failed action and a call
\* returned after a confirmed liquidation, and the running-set is empty.
C3_Witness ==
    /\ thr[Main].pc = "pass"
    /\ Len(thr[Main].calls) = 2
    /\ keeperErrors = 1
    /\ liqSuccess = 1
    /\ activeKeeperTasks = {}

C4_Step ==
    /\ \A t \in Threads :
         Returns(t) =>
            /\ keeperErrors' = (IF thr[t].err THEN keeperErrors + 1 ELSE keeperErrors)
            /\ thr'[t].pc = "pass"
            /\ thr'[t].todo = thr[t].todo
            /\ pc' = pc
            /\ exitCount' = exitCount
    \* a submission that failed with another error than NONCE_EXPIRED settles the action
    /\ (liqFailed' # liqFailed /\ fatalCount' = fatalCount) =>
            \E t \in Threads :
                /\ thr[t].pc \in {"submit", "wait"}
                /\ thr'[t].pc = "settled"
                /\ thr'[t].err
                /\ pc' = pc
                /\ exitCount' = exitCount
    \* the counter moves only when a call returns after a failed action
    /\ keeperErrors' # keeperErrors => \E t \in Threads : Returns(t) /\ thr[t].err

\* C4: when the action fails with an error other than the fatal sequencing error,
\* runKeeperTask returns normally (run() and the pass are not affected), the keeper
\* error counter is incremented exactly once for the failure, and the pass keeps
\* the remaining index entries to offer.
C4_RecoverableErrorContained == [][C4_Step]_vars

\* C4 witness: the first action of a block's pass failed, the counter is 1, and
\* the same pass is running the action of the next entry.
C4_Witness ==
    /\ pc = "keepers"
    /\ keeperErrors = 1
    /\ liqFailed = 1
    /\ InFlight(Main)
    /\ Len(thr[Main].calls) = 2

C5_Halted ==
    exitCount >= 1 =>
        UNCHANGED <<positions, blockQueue, dequeued, appliedBlocks, thr,
                    activeKeeperTasks, futuresOpenPositions, pc, blockTip>>

\* C5: a submission failing with NONCE_EXPIRED halts the process exactly once, and
\* after the halt no action is invoked, no block is dequeued, no pass starts and
\* the index is not mutated.
C5_FatalHaltsOnce ==
    /\ [](exitCount = fatalCount /\ exitCount <= 1)
    /\ [][C5_Halted]_vars

\* C5 witness: the process has exited during a block's pass with entries left to
\* offer and a block waiting in the queue.
C5_Witness ==
    /\ exitCount = 1
    /\ pc = "keepers"
    /\ thr[Main].todo # <<>>
    /\ blockQueue # <<>>

IsPrefix(s, r) == Len(s) <= Len(r) /\ \A k \in 1..Len(s) : s[k] = r[k]

C6_Step ==
    \* a block is taken only when the block before it has had its update and full pass
    /\ dequeued' # dequeued =>
          /\ blockStage \in {"none", "passed"}
          /\ thr[Main].pc = "idle"
          /\ dequeued' = Append(dequeued, Head(blockQueue))
          /\ blockNumber' = Head(blockQueue)
    \* the update is for the block taken last, the pass follows the update
    /\ appliedBlocks' # appliedBlocks =>
          /\ blockStage = "query"
          /\ appliedBlocks' = Append(appliedBlocks, dequeued[Len(dequeued)])
    /\ (blockStage' = "pass" /\ blockStage # "pass") => blockStage = "updated"
    /\ (blockStage' = "passed" /\ blockStage # "passed") =>
          /\ blockStage = "pass"
          /\ thr[Main].todo = <<>>
          /\ thr[Main].calls = IdsIn(thr[Main].snap)

\* C6: queued blocks are processed in the order their notifications were appended,
\* one at a time: the index update of a dequeued block is followed by one full
\* pass, and the next block is not taken before that pass has completed, also
\* when notifications arrive during the pass.
C6_OneBlockAtATime ==
    /\ [](notified # <<>> => IsPrefix(dequeued, Tail(notified)))
    /\ [](IsPrefix(appliedBlocks, dequeued) /\ Len(dequeued) <= Len(appliedBlocks) + 1)
    /\ [][C6_Step]_vars

\* C6 witness: the second queued block is in its pass while the first has been
\* fully processed.
C6_Witness ==
    /\ Len(dequeued) = 2
    /\ dequeued[1] # dequeued[2]
    /\ blockStage = "pass"
    /\ InFlight(Main)

\* C7: the driver applies each block number at most once, in strictly increasing
\* order, and never a block the startup backfill covered.
C7_AppliedOnceIncreasing ==
    /\ \A i, j \in 1..Len(appliedBlocks) : i < j => appliedBlocks[i] < appliedBlocks[j]
    /\ \A i \in 1..Len(appliedBlocks) : appliedBlocks[i] > backfillLatest

\* ---------------------------------------------------------------------------
\* C11

Holds(t) == \E h \in signerHeldBy : h[2] = t

Ineligible(rec) == rec.trail # <<>> /\ Head(rec.trail) = <<"canLiquidate", "false">>

\* the step on which canLiquidate answers false for thread t
C11_Step(t) ==
    (thr[t].pc = "canLiquidate" /\ Ineligible(thr'[t]))
        => /\ thr'[t].pc = "settled"
           /\ ~thr'[t].err
           /\ thr'[t].thrown = "-"
           /\ signerHeldBy' = signerHeldBy
           /\ liqSuccess' = liqSuccess
           /\ liqFailed' = liqFailed
           /\ exitCount' = exitCount

C11_Returned ==
    \A t \in Threads :
        Ineligible(thr[t]) => /\ thr[t].pc = "settled"
                              /\ ~thr[t].err
                              /\ Len(thr[t].trail) = 1
                              /\ ~Holds(t)

\* C11: when canLiquidate answers false, liquidateOrder returns normally: the
\* invocation acquires no signer, submits no transaction and records neither a
\* success nor a failed outcome.
C11_IneligibleIsNoOp == [](C11_Returned) /\ [][\A t \in Threads : C11_Step(t)]_vars

C11_Witness ==
    \E t \in Threads : /\ thr[t].pc = "settled"
                       /\ Ineligible(thr[t])
                       /\ liqSuccess + liqFailed > 0

\* ---------------------------------------------------------------------------
\* C12

\* the invocation entered the withSigner callback: a submission attempt
Attempted(rec) == \E i \in DOMAIN rec.trail : rec.trail[i][1] = "withSigner"

Observed(rec, outcome) ==
    Cardinality({i \in DOMAIN rec.trail : rec.trail[i] = <<"observe", outcome>>})

\* the errors the submit or the confirmation of the invocation raised
Raised(rec) ==
    {i \in DOMAIN rec.trail : /\ rec.trail[i][1] \in {"liquidatePosition", "wait"}
                              /\ rec.trail[i][2] \in ErrCodes}

Completed(rec) ==
    /\ \E i \in DOMAIN rec.trail : rec.trail[i] = <<"liquidatePosition", "tx">>
    /\ \E i \in DOMAIN rec.trail : rec.trail[i] = <<"wait", "receipt">>

C12_Outcome(rec) ==
    /\ Observed(rec, "success") + Observed(rec, "failed") = 1
    /\ Observed(rec, "success") = 1 <=> (Completed(rec) /\ Raised(rec) = {})
    /\ Observed(rec, "failed") = 1 <=> Raised(rec) # {}
    /\ Raised(rec) # {} =>
         \E i \in Raised(rec) :
            /\ Raised(rec) = {i}
            /\ rec.trail[i + 1] = <<"observe", "failed">>
            /\ IF IsFatal(rec.trail[i][2])
               THEN rec.pc = "exit"
               ELSE /\ rec.pc = "settled"
                    /\ rec.err
                    /\ rec.thrown = rec.trail[i][2]
    /\ Raised(rec) = {} => (rec.pc = "settled" /\ ~rec.err /\ rec.thrown = "-")

C12_State ==
    \A t \in Threads :
        /\ (thr[t].pc \in {"settled", "exit"} /\ Attempted(thr[t])) => C12_Outcome(thr[t])
        /\ thr[t].pc \in {"submit", "wait"} =>
              (Attempted(thr[t]) /\ Observed(thr[t], "success") + Observed(thr[t], "failed") = 0)
        /\ ~Attempted(thr[t]) => Observed(thr[t], "success") + Observed(thr[t], "failed") = 0

\* the outcome metrics move exactly by what the invocation observed
C12_Step(t) ==
    Len(thr'[t].trail) > Len(thr[t].trail)
        => /\ liqSuccess' = liqSuccess + Observed(thr'[t], "success") - Observed(thr[t], "success")
           /\ liqFailed' = liqFailed + Observed(thr'[t], "failed") - Observed(thr[t], "failed")

\* C12: every submission attempt records exactly one outcome, success when the
\* submit and the confirmation complete and failed when either raises; an error
\* that is not fatal is re-raised to runKeeperTask after the failed outcome, and
\* no success is recorded for that attempt.
C12_OneOutcomePerAttempt == [](C12_State) /\ [][\A t \in Threads : C12_Step(t)]_vars

C12_Witness ==
    \E t \in Threads : /\ thr[t].pc = "settled"
                       /\ thr[t].thrown = "CALL_EXCEPTION"
                       /\ Observed(thr[t], "failed") = 1
                       /\ liqSuccess > 0

\* ---------------------------------------------------------------------------
\* C13

HeldBy(t) == {h[1] : h \in {g \in signerHeldBy : g[2] = t}}

HoldersOf(s) == {h[2] : h \in {g \in signerHeldBy : g[1] = s}}

\* inside the callback of withSigner: between the acquisition and the end of the
\* submit-and-confirm cycle
InScope(t) == thr[t].pc \in {"submit", "wait"}

C13_State ==
    /\ \A s \in Signers : Cardinality(HoldersOf(s)) <= 1
    /\ \A h \in signerHeldBy : h[1] \in Signers /\ h[2] \in Threads
    /\ \A t \in Threads :
          /\ InScope(t) <=> HeldBy(t) # {}
          /\ InScope(t) =>
                /\ Cardinality(HeldBy(t)) = 1
                /\ \A s \in HeldBy(t) :
                      thr[t].trail[2] = <<"withSigner", s>>

C13_Step(t) ==
    /\ \A s \in HeldBy(t)' \ HeldBy(t) :
          /\ thr[t].pc = "acquire"
          /\ HoldersOf(s) = {}
    /\ (InScope(t) /\ ~InScope(t)') =>
          /\ thr'[t].pc \in {"settled", "exit"}
          /\ HeldBy(t)' = {}
          /\ \A s \in HeldBy(t) : HoldersOf(s)' = {}

\* C13: a signer is held only inside the withSigner scope of liquidateOrder, for
\* one submit-and-confirm cycle, by at most one invocation at a time, and it is
\* back in the pool when that scope is left by return, by error or by the halt.
C13_SignerScoped == [](C13_State) /\ [][\A t \in Threads : C13_Step(t)]_vars

C13_Witness ==
    \E t, u \in Threads :
        /\ t # u
        /\ thr[t].pc = "acquire"
        /\ thr[u].pc = "wait"
        /\ HeldBy(u) = Signers
        /\ liqFailed > 0

\* ---------------------------------------------------------------------------
\* C19

CallsFor(rec, id) == Cardinality({j \in DOMAIN rec.calls : rec.calls[j] = id})

InIndex(pos, id) == \E k \in DOMAIN pos : pos[k].id = id

\* the pass of the driver has gone through its whole loop
PassComplete ==
    /\ pc \in {"keepers0", "keepers"}
    /\ thr[Main].pc = "pass"
    /\ thr[Main].todo = <<>>

\* C19: a pass that runs to completion has called runKeeperTask exactly once for
\* each entry that was in the index when the pass started, and for no other id.
C19_OncePerEntry ==
    /\ pc \in {"keepers0", "keepers"} => thr[Main].snap = positions
    /\ \A id \in AllIds : CallsFor(thr[Main], id) <= 1
    /\ PassComplete =>
          \A id \in AllIds :
              CallsFor(thr[Main], id) = IF InIndex(positions, id) THEN 1 ELSE 0

C19_Witness ==
    /\ PassComplete
    /\ Len(positions) = 2
    /\ Len(thr[Main].calls) = 2
    /\ keeperErrors > 0

\* ---------------------------------------------------------------------------
\* C20

\* thread t makes a runKeeperTask call on this step
CallStep(t) == thr'[t].calls # thr[t].calls /\ thr'[t].calls # <<>>

C20_State ==
    /\ Cardinality({t \in Threads : InFlight(t)}) <= 1
    /\ Cardinality(activeKeeperTasks) <= 1
    /\ Cardinality(signerHeldBy) <= 1
    /\ \A h \in signerHeldBy : InFlight(h[2])

C20_Step(t) ==
    CallStep(t) => /\ \A u \in Threads : ~InFlight(u)
                   /\ activeKeeperTasks = {}
                   /\ signerHeldBy = {}
                   /\ thr[t].trail = <<>>

\* C20: the serial pass offers the entries one at a time: runKeeperTask is
\* called for the next entry only after the action of the previous one has
\* completed or failed, so at most one action, and at most one held signer, is
\* in flight at any time across all ids.
C20_SerialPass == [](C20_State) /\ [][\A t \in Threads : C20_Step(t)]_vars

C20_Witness ==
    /\ thr[Main].pc = "wait"
    /\ Len(thr[Main].calls) = 2
    /\ Len(thr[Main].todo) = 0
    /\ signerHeldBy # {}
    /\ liqSuccess > 0

\* ===========================================================================
\* The paginated fetcher: getOpenPositions and getPendingOrders

MaxCount == 3
MaxPageSize == 2
MaxPageCalls == 2
MaxEntityCalls == 2
MaxChainBlocks == 2

\* Object.keys(markets)
MarketKeys == <<"A", "B", "C">>
MarketSet == {MarketKeys[i] : i \in DOMAIN MarketKeys}
MarketNo(m) == CHOOSE i \in DOMAIN MarketKeys : MarketKeys[i] = m

\* account addresses; one account may be in the lists of several markets
Addresses == 0..MaxCount

Min(a, b) == IF a < b THEN a ELSE b

RECURSIVE Flatten(_)
Flatten(ss) == IF ss = <<>> THEN <<>> ELSE Head(ss) \o Flatten(Tail(ss))

\* ------------------------------------------------------------ the contracts
\* the address list a state contract holds for n accounts: the lists of the
\* markets start at different accounts
ListOf(m, n) == [i \in 1..n |-> (i + MarketNo(m)) % (MaxCount + 1)]

\* getPositionAddressesLength / getDelayedOrderAddressesLength at block b
LengthAt(b, m) == Len(chain[b][m])

\* getPositionAddressesPage / getDelayedOrderAddressesPage at block b: the page
\* is cut at the end of the list
PageAt(b, m, from, size) ==
    SubSeq(chain[b][m], from + 1, Min(from + size, Len(chain[b][m])))

\* positions(address) / delayedOrders(address): what the contract of market m
\* holds for the account
EntityAt(m, a) ==
    LET key == MarketNo(m) * (MaxCount + 1) + a
    IN [id |-> key, executableAtTime |-> key, isOffchain |-> (MarketNo(m) + a) % 2 = 0]

\* --------------------------------------------------------------- pure parts
\* pages of the range [from, to): every page full but the last, which holds
\* the remainder
GetPaginatedFromAndToFullLast(from, to, maxSize) ==
    [i \in 1..((to - from + maxSize - 1) \div maxSize) |->
        [from |-> from + (i - 1) * maxSize,
         to   |-> from + i * maxSize,
         size |-> maxSize]]

GetPaginatedFromAndTo(from, to, maxSize) ==
    [i \in 1..((to - from + maxSize - 1) \div maxSize) |->
        LET start == from + (i - 1) * maxSize
            size  == Min(maxSize, to - start)
        IN [from |-> start, to |-> start + size, size |-> size]]

\* lodash chunk
Chunk(s, n) ==
    [i \in 1..((Len(s) + n - 1) \div n) |-> SubSeq(s, (i - 1) * n + 1, Min(i * n, Len(s)))]

\* a Record<string, T[]> in key insertion order
HasKey(rec, key) == \E i \in DOMAIN rec : rec[i].marketKey = key
ItemsOf(rec, key) ==
    IF HasKey(rec, key)
    THEN rec[CHOOSE i \in DOMAIN rec : rec[i].marketKey = key].items
    ELSE <<>>

\* rec[key] = xs in place of the concatenation
ConcatAtOverwrites(rec, key, xs) ==
    IF HasKey(rec, key)
    THEN [i \in DOMAIN rec |->
            IF rec[i].marketKey = key THEN [rec[i] EXCEPT !.items = xs] ELSE rec[i]]
    ELSE Append(rec, [marketKey |-> key, items |-> xs])

\* rec[key] = (rec[key] ?? []).concat(xs)
ConcatAt(rec, key, xs) ==
    IF HasKey(rec, key)
    THEN [i \in DOMAIN rec |->
            IF rec[i].marketKey = key THEN [rec[i] EXCEPT !.items = @ \o xs] ELSE rec[i]]
    ELSE Append(rec, [marketKey |-> key, items |-> xs])

\* the forEach of getAddressLengthByMarket without its length.gt(0) test
LengthByMarketAll(data) ==
    [i \in DOMAIN MarketKeys |-> [marketKey |-> MarketKeys[i], length |-> data[i]]]

\* the forEach of getAddressLengthByMarket over result.returnData
LengthByMarket(data) ==
    SelectSeq([i \in DOMAIN MarketKeys |-> [marketKey |-> MarketKeys[i], length |-> data[i]]],
              LAMBDA e : e.length > 0)

\* the flatMap of getAddressesByLengths
AllPages(lbm, maxSize) ==
    Flatten([k \in DOMAIN lbm |->
        LET ps == GetPaginatedFromAndTo(0, lbm[k].length, maxSize)
        IN [i \in DOMAIN ps |-> [pagination |-> ps[i], marketKey |-> lbm[k].marketKey]]])

\* the flatMap of getPositionsByAddresses / getOrdersByAddresses
AllPairs(abm) ==
    Flatten([k \in DOMAIN abm |->
        [j \in DOMAIN abm[k].items |->
            [address |-> abm[k].items[j], marketKey |-> abm[k].marketKey]]])

\* result.returnData.forEach of getAddressesByLengths, from call i of the batch
RECURSIVE ApplyPages(_, _, _, _)
ApplyPages(rec, batch, data, i) ==
    IF i > Len(batch) THEN rec
    ELSE ApplyPages(ConcatAt(rec, batch[i].marketKey, data[i]), batch, data, i + 1)

Decode(kind, pair, response) ==
    IF kind = "POSITION"
    THEN [account |-> pair.address, id |-> response.id]
    ELSE [account |-> pair.address, executableAtTime |-> response.executableAtTime]

\* the forEach pairing response i with the pair at the mirrored place of the batch
RECURSIVE ApplyEntitiesMirrored(_, _, _, _, _)
ApplyEntitiesMirrored(kind, rec, batch, data, i) ==
    IF i > Len(batch) THEN rec
    ELSE LET pair == batch[Len(batch) + 1 - i]
             next == IF kind = "ORDER" /\ ~data[i].isOffchain
                     THEN rec
                     ELSE ConcatAt(rec, pair.marketKey, <<Decode(kind, pair, data[i])>>)
         IN ApplyEntitiesMirrored(kind, next, batch, data, i + 1)

\* result.returnData.forEach of getPositionsByAddresses / getOrdersByAddresses
RECURSIVE ApplyEntities(_, _, _, _, _)
ApplyEntities(kind, rec, batch, data, i) ==
    IF i > Len(batch) THEN rec
    ELSE LET pair == batch[i]
             next == IF kind = "ORDER" /\ ~data[i].isOffchain
                     THEN rec
                     ELSE ConcatAt(rec, pair.marketKey, <<Decode(kind, pair, data[i])>>)
         IN ApplyEntities(kind, next, batch, data, i + 1)

\* ------------------------------------------------------------------ the call
keeperVars == <<positions, driverVars, taskVars, exitCount, metricVars, driverHist,
                taskHist, harnessHist, indexHist>>

\* the block tag of the page reads taken from the provider's latest block
PageTagLatest == Len(chain)

\* blockTag: block.number, for the three kinds of read
CountTag == fetch.block
PageTag == fetch.block
EntityTag == fetch.block

\* reads is history: every read issued, with its block tag, the market each
\* call of it targets and the latest block of the chain when it was answered;
\* pages is history: every page descriptor computed.
Read(what, tag, targets) ==
    [what |-> what, tag |-> tag, targets |-> targets, latest |-> Len(chain)]

TargetsOf(batch) == [i \in DOMAIN batch |-> batch[i].marketKey]

FetchPcs == {"counts", "pages", "assoc", "posPages", "entities"}

\* getPositionsByAddresses / getOrdersByAddresses up to the first await
StartEntities(f, abm) ==
    LET batches == Chunk(AllPairs(abm), f.entityCalls)
    IN [f EXCEPT !.addressesByMarket = abm,
                 !.batches = batches,
                 !.pc = IF batches = <<>> THEN "done" ELSE "entities"]

\* the aggregate call of getAddressLengthByMarket returns
CountsReturn ==
    /\ fetch.pc = "counts"
    /\ LET data == [i \in DOMAIN MarketKeys |-> LengthAt(CountTag, MarketKeys[i])]
           lbm  == LengthByMarket(data)
           f    == [fetch EXCEPT !.lengthByMarket = lbm,
                                 !.counted = TRUE,
                                 !.reads = Append(@, Read("count", CountTag, MarketKeys))]
       IN
       fetch' =
          IF lbm = <<>> THEN [f EXCEPT !.pc = "done"]
          ELSE IF f.kind = "ORDER"
          THEN LET pages == AllPages(lbm, f.pageSize)
               IN [f EXCEPT !.pc = "pages",
                            !.pages = pages,
                            !.batches = Chunk(pages, f.pageCalls)]
          ELSE [f EXCEPT !.pc = "assoc", !.market = 1]
    /\ UNCHANGED <<chain, keeperVars>>

\* one aggregate call of getAddressesByLengths returns
PageBatchReturns ==
    /\ fetch.pc = "pages"
    /\ LET batch == Head(fetch.batches)
           data  == [i \in DOMAIN batch |->
                        PageAt(PageTag, batch[i].marketKey,
                               batch[i].pagination.from, batch[i].pagination.size)]
           abm   == ApplyPages(fetch.addressesByMarket, batch, data, 1)
           f     == [fetch EXCEPT !.reads = Append(@, Read("page", PageTag, TargetsOf(batch)))]
       IN
       fetch' = IF Tail(fetch.batches) = <<>>
                THEN StartEntities(f, abm)
                ELSE [f EXCEPT !.addressesByMarket = abm, !.batches = Tail(fetch.batches)]
    /\ UNCHANGED <<chain, keeperVars>>

\* getOpenPositions: state.associatedContracts() of the market at hand returns,
\* and the page calls of the market are issued
AssocReturns ==
    /\ fetch.pc = "assoc"
    /\ LET m  == fetch.lengthByMarket[fetch.market]
           ps == GetPaginatedFromAndTo(0, m.length, fetch.pageSize)
       IN
       fetch' = [fetch EXCEPT
                   !.pc = "posPages",
                   !.pages = @ \o [i \in DOMAIN ps |->
                                      [pagination |-> ps[i], marketKey |-> m.marketKey]],
                   !.reads = Append(@, Read("associatedContracts", 0, <<m.marketKey>>))]
    /\ UNCHANGED <<chain, keeperVars>>

\* getOpenPositions: Promise.all of the page calls of the market at hand resolves
PosPagesReturn ==
    /\ fetch.pc = "posPages"
    /\ LET m    == fetch.lengthByMarket[fetch.market]
           ps   == SelectSeq(fetch.pages, LAMBDA p : p.marketKey = m.marketKey)
           data == [i \in DOMAIN ps |->
                       PageAt(PageTag, m.marketKey, ps[i].pagination.from,
                              ps[i].pagination.size)]
           abm  == Append(fetch.addressesByMarket,
                          [marketKey |-> m.marketKey, items |-> Flatten(data)])
           f    == [fetch EXCEPT
                      !.reads = @ \o [i \in DOMAIN ps |->
                                         Read("page", PageTag, <<m.marketKey>>)]]
       IN
       fetch' = IF fetch.market < Len(fetch.lengthByMarket)
                THEN [f EXCEPT !.addressesByMarket = abm,
                               !.market = @ + 1,
                               !.pc = "assoc"]
                ELSE StartEntities(f, abm)
    /\ UNCHANGED <<chain, keeperVars>>

\* one aggregate call of getPositionsByAddresses / getOrdersByAddresses returns
EntityBatchReturns ==
    /\ fetch.pc = "entities"
    /\ LET batch == Head(fetch.batches)
           data  == [i \in DOMAIN batch |-> EntityAt(batch[i].marketKey, batch[i].address)]
       IN
       fetch' = [fetch EXCEPT
                   !.out = ApplyEntities(fetch.kind, @, batch, data, 1),
                   !.batches = Tail(@),
                   !.reads = Append(@, Read("entity", EntityTag, TargetsOf(batch))),
                   !.pc = IF Tail(fetch.batches) = <<>> THEN "done" ELSE "entities"]
    /\ UNCHANGED <<chain, keeperVars>>

\* the read in flight rejects: the call rejects with it and its locals are gone
FetchFails ==
    /\ fetch.pc \in FetchPcs
    /\ fetch' = [fetch EXCEPT !.pc = "failed", !.counted = FALSE,
                              !.lengthByMarket = <<>>, !.market = 0, !.pages = <<>>,
                              !.batches = <<>>, !.addressesByMarket = <<>>,
                              !.out = <<>>, !.reads = <<>>]
    /\ UNCHANGED <<chain, keeperVars>>

\* the chain gets a new block in which an account joined or left the list of market m
ChainAdvance(m, joins) ==
    /\ fetch.pc \in FetchPcs
    /\ Len(chain) < MaxChainBlocks
    /\ LET now  == chain[Len(chain)]
           list == now[m]
           free == {a \in Addresses : \A i \in DOMAIN list : list[i] # a}
       IN
       IF joins
       THEN /\ free # {}
            /\ chain' = Append(chain,
                   [now EXCEPT ![m] = Append(list, CHOOSE a \in free : TRUE)])
       ELSE /\ list # <<>>
            /\ chain' = Append(chain,
                   [now EXCEPT ![m] = [i \in 1..(Len(list) - 1) |->
                                          IF i = 1 THEN list[Len(list)] ELSE list[i]]])
    /\ UNCHANGED <<fetch, keeperVars>>

InitFetch ==
    /\ positions = <<>>
    /\ activeKeeperTasks = {}
    /\ blockQueue = <<>>
    /\ blockTip = 0
    /\ listening = FALSE
    /\ pc = "fetch"
    /\ blockNumber = 0
    /\ thr = [t \in Threads |-> IdleThread]
    /\ signerHeldBy = {}
    /\ exitCount = 0
    /\ futuresOpenPositions = 0
    /\ keeperErrors = 0
    /\ liqSuccess = 0
    /\ liqFailed = 0
    /\ notified = <<>>
    /\ dequeued = <<>>
    /\ appliedBlocks = <<>>
    /\ backfillLatest = 0
    /\ blockStage = "none"
    /\ fatalCount = 0
    /\ lastSkip = NoSkip
    /\ lastOutcome = NoOutcome
    /\ passCount = 0
    /\ updateCount = 0
    /\ appliedEvents = <<>>
    /\ lastEvents = <<>>
    /\ prevPositions = <<>>
    /\ \E counts \in [MarketSet -> 0..MaxCount] :
          chain = <<[m \in MarketSet |-> ListOf(m, counts[m])]>>
    /\ \E kind \in {"POSITION", "ORDER"}, pageSize \in 1..MaxPageSize,
          pageCalls \in 1..MaxPageCalls, entityCalls \in 1..MaxEntityCalls :
          fetch = [pc |-> "counts", kind |-> kind, block |-> 1,
                   pageSize |-> pageSize, pageCalls |-> pageCalls,
                   entityCalls |-> entityCalls,
                   counted |-> FALSE, lengthByMarket |-> <<>>, market |-> 0,
                   pages |-> <<>>, batches |-> <<>>, addressesByMarket |-> <<>>,
                   out |-> <<>>, reads |-> <<>>]

NextFetch ==
    \/ CountsReturn
    \/ PageBatchReturns
    \/ AssocReturns
    \/ PosPagesReturn
    \/ EntityBatchReturns
    \/ FetchFails
    \/ \E m \in MarketSet, joins \in BOOLEAN : ChainAdvance(m, joins)

SpecFetch == InitFetch /\ [][NextFetch]_vars

\* ---------------------------------------------------------------------------
\* C14

\* the count of market m at the pinned block
Pinned(m) == LengthAt(fetch.block, m)

ReadsOf(kinds) == SelectSeq(fetch.reads, LAMBDA r : r.what \in kinds)

C14_Map ==
    LET lbm == fetch.lengthByMarket
    IN /\ \A m \in MarketSet :
             Cardinality({i \in DOMAIN lbm : lbm[i].marketKey = m})
                = IF Pinned(m) > 0 THEN 1 ELSE 0
       /\ \A i \in DOMAIN lbm : lbm[i].length = Pinned(lbm[i].marketKey)
       /\ \A i, j \in DOMAIN lbm :
             i < j => MarketNo(lbm[i].marketKey) < MarketNo(lbm[j].marketKey)

C14_NoPages ==
    /\ \A i \in DOMAIN fetch.pages : Pinned(fetch.pages[i].marketKey) > 0
    /\ \A i \in DOMAIN fetch.reads :
          fetch.reads[i].what \in {"page", "associatedContracts"}
             => \A k \in DOMAIN fetch.reads[i].targets :
                   Pinned(fetch.reads[i].targets[k]) > 0

\* C14: the map getAddressLengthByMarket returns holds exactly the markets whose
\* count at the pinned block is greater than zero, each with its count; a market
\* with count zero gets no page and no page call.
C14_CountMapOmitsZero ==
    /\ fetch.counted => C14_Map
    /\ ~fetch.counted => (fetch.lengthByMarket = <<>> /\ fetch.pages = <<>>)
    /\ C14_NoPages

\* counts {A: 0, B: 3, C: 1} with page size 2
C14_Witness ==
    /\ fetch.pc = "done"
    /\ fetch.pageSize = 2
    /\ fetch.kind = "ORDER"
    /\ fetch.lengthByMarket = <<[marketKey |-> "B", length |-> 3],
                                [marketKey |-> "C", length |-> 1]>>
    /\ Pinned("A") = 0
    /\ Len(ReadsOf({"page"})) > 0

\* ---------------------------------------------------------------------------
\* C15

PagesFor(m) == SelectSeq(fetch.pages, LAMBDA p : p.marketKey = m)

RangeOf(p) == p.pagination.from .. (p.pagination.from + p.pagination.size - 1)

C15_Pages(ps, N, maxSize) ==
    /\ Len(ps) >= 1
    /\ \A i \in DOMAIN ps : ps[i].pagination.size >= 1 /\ ps[i].pagination.size <= maxSize
    /\ \A i, j \in DOMAIN ps : i # j => RangeOf(ps[i]) \cap RangeOf(ps[j]) = {}
    /\ UNION {RangeOf(ps[i]) : i \in DOMAIN ps} = 0..(N - 1)
    /\ \A i, j \in DOMAIN ps : i < j => ps[i].pagination.from < ps[j].pagination.from
    /\ ps[Len(ps)].pagination.size = IF N % maxSize = 0 THEN maxSize ELSE N % maxSize

\* C15: for a count N > 0 and page size P > 0 the page list of a market is in
\* increasing offset order, its ranges are pairwise disjoint with union [0, N),
\* every size is at most P and the last size is N mod P, or P when P divides N.
C15_PagesCoverExactly ==
    \A m \in MarketSet :
        PagesFor(m) # <<>> => C15_Pages(PagesFor(m), Pinned(m), fetch.pageSize)

C15_Witness ==
    \E m, n \in MarketSet :
        /\ fetch.pageSize = 2
        /\ Pinned(m) = 3 /\ Len(PagesFor(m)) = 2
        /\ Pinned(n) = 2 /\ Len(PagesFor(n)) = 1

\* ---------------------------------------------------------------------------
\* C16

Ceil(a, b) == (a + b - 1) \div b

\* the calls made so far by the aggregate reads of the kind, in order
TargetsSoFar(what) ==
    Flatten([i \in DOMAIN ReadsOf({what}) |-> ReadsOf({what})[i].targets])

\* the address pages of market m at the pinned block, joined in offset order
PagesJoined(m) ==
    Flatten([i \in DOMAIN PagesFor(m) |->
                PageAt(fetch.block, m, PagesFor(m)[i].pagination.from,
                       PagesFor(m)[i].pagination.size)])

\* getAddressesByLengths ran to its end
PagesDone == fetch.pc \in {"entities", "done"} /\ fetch.lengthByMarket # <<>>

C16_Batches ==
    /\ \A i \in DOMAIN ReadsOf({"page"}) :
          /\ Len(ReadsOf({"page"})[i].targets) >= 1
          /\ Len(ReadsOf({"page"})[i].targets) <= fetch.pageCalls
    /\ fetch.pc = "pages" =>
          TargetsSoFar("page") \o TargetsOf(Flatten(fetch.batches)) = TargetsOf(fetch.pages)
    /\ PagesDone =>
          /\ Len(ReadsOf({"page"})) = Ceil(Len(fetch.pages), fetch.pageCalls)
          /\ TargetsSoFar("page") = TargetsOf(fetch.pages)

C16_Joined ==
    PagesDone =>
       /\ \A m \in MarketSet : ItemsOf(fetch.addressesByMarket, m) = PagesJoined(m)
       /\ \A m \in MarketSet : HasKey(fetch.addressesByMarket, m) <=> PagesFor(m) # <<>>

\* C16: getAddressesByLengths cuts the flattened (market, page) pairs into
\* batches of at most MAX_ADDRESS_PAGE_CALLS calls, makes one aggregate call per
\* batch, and returns for each market its pages joined in increasing offset
\* order, also when the pages of a market fall into several batches.
C16_PagesJoinedInOrder == fetch.kind = "ORDER" => (C16_Batches /\ C16_Joined)

\* the pages of market m were fetched by more than one aggregate call
SplitAcrossBatches(m) ==
    Cardinality({i \in DOMAIN ReadsOf({"page"}) :
                    \E k \in DOMAIN ReadsOf({"page"})[i].targets :
                        ReadsOf({"page"})[i].targets[k] = m}) >= 2

C16_Witness ==
    /\ fetch.kind = "ORDER"
    /\ PagesDone
    /\ fetch.pageCalls = 2
    /\ \E m, n \in MarketSet :
          /\ m # n
          /\ SplitAcrossBatches(m)
          /\ Len(PagesFor(n)) >= 1
          /\ Len(ItemsOf(fetch.addressesByMarket, m)) = 3

\* ---------------------------------------------------------------------------
\* C17

\* what the entity read of market m yields for the accounts, in their order
Expected(kind, m, accounts) ==
    LET kept == IF kind = "ORDER"
                THEN SelectSeq(accounts, LAMBDA a : EntityAt(m, a).isOffchain)
                ELSE accounts
    IN [j \in DOMAIN kept |->
           IF kind = "POSITION"
           THEN [account |-> kept[j], id |-> EntityAt(m, kept[j]).id]
           ELSE [account |-> kept[j],
                 executableAtTime |-> EntityAt(m, kept[j]).executableAtTime]]

\* the entity fetch ran to its end
EntitiesDone == fetch.pc = "done" /\ fetch.lengthByMarket # <<>>

C17_Calls ==
    /\ \A i \in DOMAIN ReadsOf({"entity"}) :
          Len(ReadsOf({"entity"})[i].targets) <= fetch.entityCalls
    /\ EntitiesDone =>
          /\ Len(ReadsOf({"entity"}))
                = Ceil(Len(AllPairs(fetch.addressesByMarket)), fetch.entityCalls)
          /\ TargetsSoFar("entity") = TargetsOf(AllPairs(fetch.addressesByMarket))

C17_Filed ==
    /\ \A k \in DOMAIN fetch.out :
          \A j \in DOMAIN fetch.out[k].items :
              LET m == fetch.out[k].marketKey
                  e == fetch.out[k].items[j]
              IN /\ \E n \in DOMAIN ItemsOf(fetch.addressesByMarket, m) :
                        ItemsOf(fetch.addressesByMarket, m)[n] = e.account
                 /\ IF fetch.kind = "POSITION"
                    THEN e.id = EntityAt(m, e.account).id
                    ELSE e.executableAtTime = EntityAt(m, e.account).executableAtTime
    /\ EntitiesDone =>
          \A m \in MarketSet :
              ItemsOf(fetch.out, m)
                 = Expected(fetch.kind, m, ItemsOf(fetch.addressesByMarket, m))

\* C17: for K (address, market) pairs the entity fetch makes exactly
\* ceil(K / MAX_ENTITY_PAGE_CALLS) aggregate calls, and every entity of the
\* output is filed under the market and carries the account of the pair whose
\* call produced it, in the order of the address list of that market.
C17_EntitiesKeepTheirPair == C17_Calls /\ C17_Filed

C17_Witness ==
    /\ EntitiesDone
    /\ fetch.entityCalls = 2
    /\ Len(ReadsOf({"entity"})) >= 3
    /\ \E m, n \in MarketSet :
          /\ m # n
          /\ Len(ItemsOf(fetch.out, m)) >= 2
          /\ \E i \in DOMAIN ItemsOf(fetch.out, m), j \in DOMAIN ItemsOf(fetch.out, n) :
                ItemsOf(fetch.out, m)[i].account = ItemsOf(fetch.out, n)[j].account

\* ---------------------------------------------------------------------------
\* C18

C18_Tags ==
    \A i \in DOMAIN fetch.reads :
        fetch.reads[i].what \in {"count", "page", "entity"}
           => fetch.reads[i].tag = fetch.block

\* the addresses recovered for a market, once all its pages are in:
\* getOpenPositions files a market when its pages are in, getAddressesByLengths
\* has them all when it returns
C18_Recovered ==
    /\ fetch.kind = "POSITION" =>
          \A k \in DOMAIN fetch.addressesByMarket :
              \E i \in DOMAIN fetch.lengthByMarket :
                  /\ fetch.lengthByMarket[i].marketKey = fetch.addressesByMarket[k].marketKey
                  /\ fetch.lengthByMarket[i].length = Len(fetch.addressesByMarket[k].items)
    /\ PagesDone =>
          \A i \in DOMAIN fetch.lengthByMarket :
              Len(ItemsOf(fetch.addressesByMarket, fetch.lengthByMarket[i].marketKey))
                 = fetch.lengthByMarket[i].length

\* C18: within one getOpenPositions or getPendingOrders call every count read,
\* address-page read and entity read is made at the pinned block, so the number
\* of addresses recovered for a market equals the count read for it, also when
\* the chain adds or removes addresses between the reads.
C18_ReadsPinned == C18_Tags /\ C18_Recovered

\* the list of a market with several pages changed between the count read and
\* a page read
C18_Witness ==
    /\ fetch.pc = "done"
    /\ Len(chain) = 2
    /\ \E m \in MarketSet :
          /\ Len(PagesFor(m)) >= 2
          /\ chain[2][m] # chain[1][m]
          /\ \E i, j \in DOMAIN fetch.reads :
                /\ fetch.reads[i].what = "count" /\ fetch.reads[i].latest = 1
                /\ fetch.reads[j].what = "page" /\ fetch.reads[j].latest = 2
                /\ \E k \in DOMAIN fetch.reads[j].targets : fetch.reads[j].targets[k] = m

\* ---------------------------------------------------------------------------
\* C21

\* how often the invocation got an answer from the collaborator
Answers(rec, what) == Cardinality({i \in DOMAIN rec.trail : rec.trail[i][1] = what})

C21_State ==
    \A t \in Threads :
        /\ \A what \in {"canLiquidate", "withSigner", "liquidatePosition", "wait"} :
              Answers(thr[t], what) <= 1
        /\ \A id \in AllIds : CallsFor(thr[t], id) <= 1
        /\ InFlight(t) => CallsFor(thr[t], thr[t].cur.id) = 1

\* a step on which the invocation of thread t takes a signer to submit
Attempts(t) == Answers(thr'[t], "withSigner") > Answers(thr[t], "withSigner")

C21_Step(t) ==
    /\ Attempts(t) =>
          /\ thr[t].trail = <<(<<"canLiquidate", "true">>)>>
          /\ CallsFor(thr[t], thr[t].cur.id) = 1
    /\ (Observed(thr[t], "failed") = 1 /\ thr'[t] # thr[t]) =>
          /\ thr[t].pc = "settled"
          /\ thr'[t].pc = "pass"
          /\ thr'[t].trail = <<>>

\* C21: liquidateOrder never retries: an invocation makes at most one
\* eligibility check, one signer acquisition and one submission, and a pass
\* makes one invocation per id, so the next attempt for an id whose submission
\* failed comes in a later pass.
C21_NoRetry == [](C21_State) /\ [][\A t \in Threads : C21_Step(t)]_vars

\* the id whose submission failed last is submitted again, by a new invocation
C21_Witness ==
    /\ thr[Main].pc = "submit"
    /\ lastOutcome = [id |-> thr[Main].cur.id, ok |-> FALSE]
    /\ Observed(thr[Main], "failed") = 0
    /\ Len(dequeued) >= 1

\* ---------------------------------------------------------------------------
\* C22

\* the events close the position of account a: the last of them that is about
\* a is PositionLiquidated or PositionModified with size zero
Closes(evs, a) ==
    /\ Relevant(evs, a) # <<>>
    /\ LET e == Relevant(evs, a)[Len(Relevant(evs, a))]
       IN e.event = "PositionLiquidated" \/ e.size = 0

\* every index the events of this model can build: open entries, one per account
IndexEntries ==
    {[id |-> x[2], event |-> "PositionModified", account |-> x[1], size |-> x[3]] :
        x \in {y \in Accounts \X AllIds \X (Sizes \ {0}) : y[2] \in IdsOf(y[1])}}
Indexes ==
    {p \in UNION {[1..k -> IndexEntries] : k \in 0..Cardinality(Accounts)} :
        \A i, j \in 1..Len(p) : p[i].account = p[j].account => i = j}

\* what updateIndex can make of each index: <<index before, index after, the
\* accounts that the applied events close>>
UpdateOutcomes ==
    {<<p, UpdateIndex(p, evs), {a \in Accounts : Closes(evs, a)}>> :
        p \in Indexes, evs \in EventSeqs(MaxEvents)}

\* the index changes only in updateIndex, called by the backfill or by
\* processNewBlock, and an entry leaves it only by a closing event
C22_Mutation ==
    positions' # positions =>
        /\ pc \in {"backfill", "queryRates"}
        /\ \A t \in Threads : ~InFlight(t)
        /\ \E closed \in SUBSET Accounts :
              <<positions, positions', closed>> \in UpdateOutcomes
        /\ \A closed \in SUBSET Accounts :
              <<positions, positions', closed>> \in UpdateOutcomes =>
                  \A a \in Accounts :
                      (HasEntry(positions, a) /\ ~HasEntry(positions', a)) => a \in closed

\* a step of runKeepers, runKeeperTask or liquidateOrder
C22_Frame(t) ==
    /\ (thr[t].pc \in TaskPcs \cup {"pass"} /\ thr'[t] # thr[t]) => positions' = positions
    /\ Observed(thr'[t], "success") > Observed(thr[t], "success") =>
          /\ HasEntry(positions', thr[t].cur.account)
          /\ EntryOf(positions', thr[t].cur.account).id = thr[t].cur.id

C22_Indexed ==
    \A t \in Threads :
        InFlight(t) => /\ HasEntry(positions, thr[t].cur.account)
                       /\ EntryOf(positions, thr[t].cur.account).id = thr[t].cur.id

\* C22: the index is changed only by updateIndex, called from the backfill and
\* from the block loop; runKeepers, runKeeperTask and liquidateOrder leave it as
\* it is, so a position whose liquidation succeeded stays in the index and is
\* offered again until a closing event for its account is applied.
C22_IndexOnlyByUpdateIndex ==
    /\ [](C22_Indexed)
    /\ [][C22_Mutation /\ \A t \in Threads : C22_Frame(t)]_vars

\* the id whose liquidation succeeded last is offered again by a later pass
C22_Witness ==
    /\ thr[Main].pc = "canLiquidate"
    /\ lastOutcome = [id |-> thr[Main].cur.id, ok |-> TRUE]
    /\ Len(appliedBlocks) >= 1
    /\ blockStage = "pass"

\* ---------------------------------------------------------------------------
\* C23

\* C23: runKeepers sets the gauge to the size of the index in its first
\* statement, and the serial driver applies no events while the pass runs, so
\* from the start of a pass until the next updateIndex, and so when the pass has
\* ended, the gauge equals the number of entries in the index.
C23_GaugeIsIndexSize ==
    /\ pc \in {"keepers0", "keepers", "loop", "queryMarket", "queryRates"}
          => futuresOpenPositions = Len(positions)
    /\ PassComplete => futuresOpenPositions = Len(thr[Main].snap)

\* the pass of a block has ended after an index update and a liquidation
C23_Witness ==
    /\ pc = "loop"
    /\ blockStage = "passed"
    /\ Len(positions) = 2
    /\ futuresOpenPositions = 2
    /\ lastOutcome.id # 0

\* ---------------------------------------------------------------------------
\* C24

\* the driver is outside runKeepers
OutsidePass == pc \in {"backfill", "loop", "queryMarket", "queryRates", "updated", "crashed"}

C24_State ==
    /\ Cardinality(activeKeeperTasks) <= 1
    /\ lastSkip = NoSkip
    /\ OutsidePass => activeKeeperTasks = {}
    /\ PassComplete => activeKeeperTasks = {}
    /\ activeKeeperTasks # {} => activeKeeperTasks = {thr[Main].cur.id}

C24_Step ==
    /\ dequeued' # dequeued => activeKeeperTasks = {}
    /\ (OutsidePass /\ pc' \in {"keepers0", "keepers"}) => activeKeeperTasks = {}
    /\ (pc \in {"keepers0", "keepers"} /\ pc' = "loop") =>
          activeKeeperTasks = {} /\ activeKeeperTasks' = {}
    /\ \A t \in Threads :
          CallStep(t) => /\ activeKeeperTasks = {}
                         /\ activeKeeperTasks' = {thr'[t].calls[Len(thr'[t].calls)]}
                         /\ thr'[t].pc = "canLiquidate"

\* C24: under the serial driver the running-set is empty when a block is
\* dequeued, when a pass starts, when it ends and at every call of
\* runKeeperTask; so it never holds more than one id, and the already-running
\* branch of runKeeperTask is never taken.
C24_RunningSetEmptyAtCalls == [](C24_State) /\ [][C24_Step]_vars

\* the second runKeeperTask call of the pass of the second dequeued block, after
\* an action that failed
C24_Witness ==
    /\ thr[Main].pc = "canLiquidate"
    /\ Len(thr[Main].calls) = 2
    /\ Len(dequeued) = 2
    /\ blockStage = "pass"
    /\ keeperErrors > 0
    /\ activeKeeperTasks = {thr[Main].cur.id}

\* ---------------------------------------------------------------------------
\* C25

\* the notifications after the first are the blocks handed to processNewBlock
\* followed by the blocks still queued: none is lost, doubled or reordered
C25_State ==
    /\ notified = <<>> => (blockQueue = <<>> /\ dequeued = <<>> /\ blockTip = 0)
    /\ notified # <<>> => (blockTip # 0 /\ Tail(notified) = dequeued \o blockQueue)
    /\ IsPrefix(appliedBlocks, dequeued)
    /\ (blockStage # "none") = (dequeued # <<>>)

C25_Step ==
    \* the first notification only sets blockTip
    /\ (notified = <<>> /\ notified' # <<>>) =>
          /\ blockQueue' = <<>>
          /\ dequeued' = <<>>
          /\ blockTip' = notified'[1]
          /\ pc' = pc /\ thr' = thr /\ positions' = positions
    \* a later one is appended, whatever the consumer is doing
    /\ (notified # <<>> /\ notified' # notified) =>
          /\ notified' = Append(notified, notified'[Len(notified')])
          /\ blockQueue' = Append(blockQueue, notified'[Len(notified')])
          /\ dequeued' = dequeued
          /\ pc' = pc /\ thr' = thr /\ positions' = positions
    \* an element leaves the queue only at its head, into processNewBlock
    /\ (notified' = notified /\ blockQueue' # blockQueue) =>
          /\ blockQueue # <<>>
          /\ blockQueue' = Tail(blockQueue)
          /\ dequeued' = Append(dequeued, Head(blockQueue))
          /\ blockNumber' = Head(blockQueue)
          /\ pc = "loop" /\ pc' = "queryMarket"

\* C25: the first notification after the listener is registered only sets
\* blockTip: it is never queued and never handed to processNewBlock. Every later
\* notification is appended to the queue once, in arrival order, also while a
\* pass is in flight, and leaves the queue only by the shift that hands it to
\* processNewBlock.
C25_QueueKeepsNotifications == [](C25_State) /\ [][C25_Step]_vars

\* three notifications, the third one arriving while the pass of the second is
\* in flight
C25_Witness ==
    /\ Len(notified) = 3
    /\ dequeued = <<notified[2]>>
    /\ blockQueue = <<notified[3]>>
    /\ pc = "keepers"
    /\ InFlight(Main)
    /\ appliedBlocks = dequeued

\* ---------------------------------------------------------------------------
\* Fair scheduling of the consumer

\* a step of the control thread of run(): the resumption after one of its awaits
\* (a query, an eligibility check, a signer, a submission or a confirmation that
\* returned or failed), or the next turn of its loop
Consumer ==
    \/ \E evs \in EventSeqs(MaxEvents), latest \in Blocks : BackfillReturns(evs, latest)
    \/ QueryFails
    \/ PassEndBackfill
    \/ Dequeue
    \/ MarketQueryReturns
    \/ \E evs \in EventSeqs(MaxEvents) : RatesQueryReturns(evs)
    \/ BlockRunKeepers
    \/ PassEndBlock
    \/ TaskStep(Main)

\* every await eventually returns or fails and the loop is scheduled: the
\* control thread takes a step whenever it can. Notifications stay free.
SpecLive == Spec /\ WF_vars(Consumer)

\* ---------------------------------------------------------------------------
\* C26

\* the blocks that have had processNewBlock in full: index update, then a pass
\* that went through its loop
Processed ==
    IF dequeued = <<>> THEN 0
    ELSE IF blockStage = "passed" THEN Len(dequeued) ELSE Len(dequeued) - 1

\* the blocks appended to the queue so far
Queued == Len(dequeued) + Len(blockQueue)

\* C26: if no fatal sequencing error occurs, and every query, eligibility check
\* and confirmation eventually returns or fails, and the consumer is scheduled
\* fairly, then every block number appended to the queue is eventually dequeued
\* and processed: index update followed by a scheduler pass.
C26_EveryQueuedBlockProcessed ==
    ([](exitCount = 0)) =>
        \A k \in 1..MaxNotifications : (Queued >= k) ~> (Processed >= k)

====
